---- MODULE Spec2Model ----
(***************************************************************************)
(* Model of src/embed-custom-form.bundle.js: the hs-form-widget custom     *)
(* element.  A mount (hsfw_factory) reads the page context, merges the     *)
(* UTM parameters of the URL with the ones cached in localStorage (each    *)
(* cache access arms a 3 minute setTimeout that removes the entry), builds *)
(* a container with one iframe and registers a window "message" listener.  *)
(* The listener (handleMessageEvent) relays four kinds of message fields.  *)
(*                                                                         *)
(* JavaScript is run-to-completion: while a mount is in progress           *)
(* (run.pc # "idle") no timer fires, no message is dispatched and the      *)
(* clock does not advance.                                                 *)
(*                                                                         *)
(* Strings are TLA+ strings.  The value JavaScript calls undefined/null is *)
(* the string Undefined.  The text "key=value," that the merge routine     *)
(* appends is kept as one segment record [key, value] of a sequence.       *)
(***************************************************************************)
EXTENDS Integers, Sequences, FiniteSets, TLC

VARIABLES
    now,            \* the clock, in ms
    search,         \* window.location.search, as the entries of URLSearchParams
    localStorage,   \* the origin's localStorage: a map from key to value
    timers,         \* pending setTimeout callbacks of the page: [key, due]
    written,        \* history: per storage key, the time and value of its last setItem
    page,           \* the host page: its location, whether it is framed, its referrer
    gaIframe,       \* src of #hsformwidget-ga-iframe in the parent document, or Undefined
    body,           \* the containers attached to the document, in document order
    listeners,      \* the registered "message" listeners: the closure of each
    run,            \* the mount in progress: its program counter and locals
    mounts,         \* history: the mounts completed on this page, and the callers whose run threw
    replied,        \* history: per listener, whether it has posted a handshake reply
    dispatch        \* history: the last message event since the last mount, and what each
                    \* listener did with it

vars == <<now, search, localStorage, timers, written, page, gaIframe,
          body, listeners, run, mounts, replied, dispatch>>

----------------------------------------------------------------------------
(* Bounds of the model *)

\* clock steps per expiry timeout
TicksPerTimeout == 3
\* clock steps until the clock stops
MaxTicks == 5
\* query entries in a URL given to the merge routine
MaxQuery == 2
\* mounts per page
MaxMounts == 2
\* mounts per page where the clock runs
MaxUtmMounts == 3

----------------------------------------------------------------------------
(* Values *)

Undefined == "<undefined>"

DEFAULT_EXPIRED_UTM_VALUE_TIMEOUT == 1000 * 60 * 3

TickMs == DEFAULT_EXPIRED_UTM_VALUE_TIMEOUT \div TicksPerTimeout

Horizon == MaxTicks * TickMs

utmKeys ==
    << "utm_source", "utmSource", "utm_medium", "utmMedium", "utm_campaign",
       "utmCampaign", "utm_term", "utmTerm", "utm_content", "utmContent" >>

Range(s) == { s[i] : i \in 1..Len(s) }

Min(S) == CHOOSE m \in S : \A n \in S : m <= n

\* the form id attribute of the element
FormIds == { "f1" }

\* query keys and values the URL is built from: two UTM keys and one other key
QueryKeys == { "utm_source", "utm_medium", "ref" }

QueryValues == { "", "a", "b" }

QueryEntries == { [key |-> k, value |-> v] : k \in QueryKeys, v \in QueryValues }

RECURSIVE SeqsUpTo(_, _)
SeqsUpTo(S, n) ==
    IF n = 0 THEN { << >> }
    ELSE LET shorter == SeqsUpTo(S, n - 1)
         IN  shorter \cup { Append(q, e) : q \in { p \in shorter : Len(p) = n - 1 }, e \in S }

\* the URLs the merge routine is examined on
Queries == SeqsUpTo(QueryEntries, MaxQuery)

\* the URLs a page navigates between
NavQueries ==
    { << >>,
      << [key |-> "utm_source", value |-> "a"] >>,
      << [key |-> "utm_source", value |-> "b"] >> }

----------------------------------------------------------------------------
(* localStorage and the UTM cache *)

getUtmKeys(utmVarName, hsfw_formId) == utmVarName \o "-" \o hsfw_formId

getItem(storage, key) == IF key \in DOMAIN storage THEN storage[key] ELSE Undefined

setItem(storage, key, value) ==
    [ k \in DOMAIN storage \cup { key } |-> IF k = key THEN value ELSE storage[k] ]

removeItem(storage, key) == [ k \in DOMAIN storage \ { key } |-> storage[k] ]

\* JavaScript truthiness of a string-or-null value
Truthy(v) == v # Undefined /\ v # ""

\* setTimeout(() => localStorage.removeItem(key), DEFAULT_EXPIRED_UTM_VALUE_TIMEOUT):
\* a new timer is armed, no earlier timer is cleared
expireUtmValueLocalStorage(pending, utmVarName, hsfw_formId, t) ==
    pending \cup { [key |-> getUtmKeys(utmVarName, hsfw_formId),
                    due |-> t + DEFAULT_EXPIRED_UTM_VALUE_TIMEOUT] }

has(entries, key) == \E i \in 1..Len(entries) : entries[i].key = key

\* the loop over searchParams.entries(): every entry is appended, a UTM entry is
\* also stored and its expiry armed
RECURSIVE urlEntriesLoop(_, _, _, _, _)
urlEntriesLoop(entries, i, acc, hsfw_formId, t) ==
    IF i > Len(entries) THEN acc
    ELSE LET e == entries[i]
             isUtm == e.key \in Range(utmKeys)
             k == getUtmKeys(e.key, hsfw_formId)
         IN  urlEntriesLoop(entries, i + 1,
                 [ params  |-> Append(acc.params, [key |-> e.key, value |-> e.value]),
                   storage |-> IF isUtm THEN setItem(acc.storage, k, e.value)
                               ELSE acc.storage,
                   timers  |-> IF isUtm
                               THEN expireUtmValueLocalStorage(acc.timers, e.key, hsfw_formId, t)
                               ELSE acc.timers,
                   written |-> IF isUtm
                               THEN setItem(acc.written, k, [at |-> t, value |-> e.value])
                               ELSE acc.written ],
                 hsfw_formId, t)

\* the filter left out: every UTM key is looked up in the cache
missingUtmParamsUnfiltered(entries) == utmKeys

\* utmKeys.filter((key) => !searchParams.has(key))
missingUtmParams(entries) == SelectSeq(utmKeys, LAMBDA key : ~has(entries, key))

\* the loop over the missing UTM keys: a truthy cached value is appended and its
\* expiry armed again
RECURSIVE cachedLoop(_, _, _, _, _)
cachedLoop(missing, i, acc, hsfw_formId, t) ==
    IF i > Len(missing) THEN acc
    ELSE LET key == missing[i]
             v == getItem(acc.storage, getUtmKeys(key, hsfw_formId))
         IN  cachedLoop(missing, i + 1,
                 IF Truthy(v)
                 THEN [ acc EXCEPT
                          !.params = Append(@, [key |-> key, value |-> v]),
                          !.timers = expireUtmValueLocalStorage(@, key, hsfw_formId, t) ]
                 ELSE acc,
                 hsfw_formId, t)

hsfw_getReferringPageVariables(entries, storage, pending, hist, hsfw_formId, t) ==
    LET afterUrl == urlEntriesLoop(entries, 1,
                        [ params |-> << >>, storage |-> storage,
                          timers |-> pending, written |-> hist ],
                        hsfw_formId, t)
    IN  cachedLoop(missingUtmParams(entries), 1, afterUrl, hsfw_formId, t)

----------------------------------------------------------------------------
(* Page context *)

\* an optional value: << >> or << x >>
None == << >>

Some(x) == << x >>

\* the text of no URL: what document.referrer is without a referrer, and what
\* String(undefined) is to the URL parser
NoUrl == [protocol |-> "", hostname |-> "", pathname |-> ""]

EmbeddingUrl ==
    [protocol |-> "https:", hostname |-> "hopesync.wpcomstaging.com", pathname |-> "/landing"]

\* the pages the element is embedded in: a top-level page, and a page that is
\* itself shown in a frame of a staging site
Pages ==
    { [location |-> [protocol |-> "https:", hostname |-> "www.example.com", pathname |-> "/"],
       framed |-> FALSE, referrer |-> NoUrl],
      [location |-> [protocol |-> "https:", hostname |-> "hsformwidget-dev.azurewebsites.net",
                     pathname |-> "/widget"],
       framed |-> TRUE, referrer |-> EmbeddingUrl] }

\* obj.parent, for the object passed as "window": the Window's parent is itself
\* on a top-level page; a Document has no such property
parentOf(obj, p) ==
    IF obj = "window" THEN (IF p.framed THEN "parent" ELSE "window") ELSE Undefined

\* obj.referrer, for the object passed as "document": a Window has no such property
referrerOf(obj, p) == IF obj = "document" THEN p.referrer ELSE NoUrl

\* obj.location.href, parsed
hrefOf(obj, p) == p.location

\* new URL(text): throws a TypeError unless text is an absolute URL
newURL(text) == IF text = NoUrl THEN [threw |-> TRUE, url |-> NoUrl]
                ELSE [threw |-> FALSE, url |-> text]

hsfw_getPageUrl(window, document, p) ==
    IF parentOf(window, p) # window
    THEN newURL(referrerOf(document, p))
    ELSE newURL(hrefOf(window, p))

hsfw_formatUrl(pageUrl) ==
    LET formattedUrl == pageUrl.protocol \o "//" \o pageUrl.hostname
    IN  IF pageUrl.pathname # "/" THEN formattedUrl \o pageUrl.pathname ELSE formattedUrl

hsfw_createContainer ==
    [id |-> "hopesync_formwidget_container", height |-> "", zIndex |-> "", children |-> << >>]

Screen == [width |-> 800, height |-> 400]

Navigator ==
    [platform |-> "Linux", userAgent |-> << "Mozilla", "Android", "Mobile" >>,
     appVersion |-> "5.0", cookieEnabled |-> TRUE]

MobileTokens ==
    { "Android", "webOS", "iPhone", "iPad", "iPod", "BlackBerry", "IEMobile", "Opera Mini" }

\* the user agent is kept as its tokens; the test is a match of any token
hsfw_isMobileDevice(navigator) == Range(navigator.userAgent) \cap MobileTokens # { }

\* the record that is serialised; referringPageVariables comes from the merge routine
hsfw_getClientInfo(p, params, navigator) ==
    [ referringSiteURL |-> p.location,
      previousPage |-> p.referrer,
      referringPageVariables |-> params,
      deviceScreenSizeSmallerDimension |->
          IF Screen.width <= Screen.height THEN Screen.width ELSE Screen.height,
      deviceScreenSizeLargerDimension |->
          IF Screen.width >= Screen.height THEN Screen.width ELSE Screen.height,
      deviceOS |-> navigator.platform,
      deviceBrowserVersion |-> navigator.appVersion,
      isMobile |-> hsfw_isMobileDevice(navigator),
      cookiesAllowed |-> navigator.cookieEnabled ]

hsfw_setContainerStyle(container) ==
    [container EXCEPT !.height = "100%", !.zIndex = "10000"]

\* the parent's hostname on a framed page, else the page's own
hsfw_getPageDomain(p) == IF p.framed THEN p.referrer.hostname ELSE p.location.hostname

qaDomains ==
    { "hsformwidget-test.azurewebsites.net", "hopesync2.wpcomstaging.com",
      "hopesync.wpcomstaging.com" }

devDomains == { "hsformwidget-dev.azurewebsites.net" }

hsfw_getSrc(p, hsfw_prod) ==
    LET clientDomain == hsfw_getPageDomain(p)
    IN  IF hsfw_prod THEN "https://hsformwidget.azurewebsites.net"
        ELSE IF clientDomain \in qaDomains THEN "https://hsformwidget-test.azurewebsites.net"
        ELSE IF clientDomain \in devDomains THEN "https://hsformwidget-dev.azurewebsites.net"
        ELSE "https://hsformwidget.azurewebsites.net"

\* iframe.src is the template literal of line 200, kept as its pieces
hsfw_createIframe(p, formId, hsfw_prod, formattedUrl, clientInfo) ==
    LET src == hsfw_getSrc(p, hsfw_prod)
    IN  [ title |-> "hopesync_formwidget_iframe",
          src |-> [ base |-> src, path |-> "/widget.html", formId |-> formId,
                    domain |-> formattedUrl, clientInfo |-> clientInfo, src |-> src ] ]

----------------------------------------------------------------------------
(* Message relay *)

\* the functions the host page defines on its window; on a framed page the
\* parent window defines ParentFunctions, on a top-level page window.parent is
\* the window itself
WindowFunctions == { "onFormSubmit", "throwingFn" }

ParentFunctions == { "parentFn" }

ThrowingFunctions == { "throwingFn" }

definesFunction(target, name, p) ==
    IF target = "window" \/ ~p.framed THEN name \in WindowFunctions
    ELSE name \in ParentFunctions

\* JavaScript truthiness of an optional number
TruthyNumber(n) == n # None /\ n[1] # 0

\* event.source.postMessage({hs_gaID, hs_gaGTMID}, "*")
hsfw_sendGaMessage(event) ==
    [ to |-> event.source, targetOrigin |-> "*",
      hs_gaID |-> event.data.hs_gaID, hs_gaGTMID |-> event.data.hs_gaGTMID ]

\* getElementById returns null when the element is missing, and setAttribute on
\* null throws
hsfw_updateGaIframe(dom, event) ==
    IF dom.gaIframe = Undefined
    THEN [threw |-> TRUE, dom |-> dom]
    ELSE [threw |-> FALSE, dom |-> [dom EXCEPT !.gaIframe = event.data.hs_gaPageToOpen]]

\* the body of the try block: which function is called, and whether it throws
tryInvoke(calledFunction, p) ==
    IF definesFunction("window", calledFunction, p)
    THEN [invoked |-> "window", threw |-> calledFunction \in ThrowingFunctions]
    ELSE IF definesFunction("parent", calledFunction, p)
    THEN [invoked |-> "parent", threw |-> calledFunction \in ThrowingFunctions]
    ELSE [invoked |-> "none", threw |-> FALSE]

\* the call without the try block: what the function throws leaves
hsfw_executeFunctionNoCatch(event, p) ==
    LET inner == tryInvoke(event.data.calledFunction, p)
    IN  [ invoked |-> inner.invoked, params |-> event.data.functionParams,
          caught |-> FALSE, escaped |-> inner.threw ]

\* try { ... } catch (error) { console.warn(...) }: what the try block throws is
\* caught and nothing leaves the function
hsfw_executeFunction(event, p) ==
    LET inner == tryInvoke(event.data.calledFunction, p)
    IN  [ invoked |-> inner.invoked, params |-> event.data.functionParams,
          caught |-> inner.threw, escaped |-> FALSE ]

\* the first element with the container's id gets the height; with no such
\* element getElementById returns null and .style throws
hsfw_resizeContainer(dom, event) ==
    LET hsfw_height == event.data.hsfw_height
    IN  IF ~TruthyNumber(hsfw_height) THEN [threw |-> FALSE, dom |-> dom]
        ELSE IF dom.body = << >> THEN [threw |-> TRUE, dom |-> dom]
        ELSE [ threw |-> FALSE,
               dom |-> [dom EXCEPT !.body[1].height = ToString(200 + hsfw_height[1]) \o "px"] ]

NoReply == [to |-> Undefined, targetOrigin |-> "", hs_gaID |-> Undefined, hs_gaGTMID |-> Undefined]

NoCall == [invoked |-> "none", params |-> Undefined, caught |-> FALSE, escaped |-> FALSE]

\* One run of the handler on event with the dom as it is.  gaFirstTime is the
\* handler's fourth parameter.  The result holds the dom after the run, what each
\* branch did, the exception that ended the run ("" if none), and the final value
\* of the parameter gaFirstTime.
handleMessageEvent(dom, event, gaFirstTime, p) ==
    LET doHandshake == (Truthy(event.data.hs_gaID) \/ Truthy(event.data.hs_gaGTMID)) /\ gaFirstTime
        reply == IF doHandshake THEN hsfw_sendGaMessage(event) ELSE NoReply
        flag == IF doHandshake THEN FALSE ELSE gaFirstTime
        doNav == Truthy(event.data.hs_gaPageToOpen)
        nav == IF doNav THEN hsfw_updateGaIframe(dom, event) ELSE [threw |-> FALSE, dom |-> dom]
        doCall == ~nav.threw /\ Truthy(event.data.calledFunction)
        call == IF doCall THEN hsfw_executeFunction(event, p) ELSE NoCall
        doResize == ~nav.threw /\ ~call.escaped /\ TruthyNumber(event.data.hsfw_height)
        resize == IF doResize THEN hsfw_resizeContainer(nav.dom, event)
                  ELSE [threw |-> FALSE, dom |-> nav.dom]
    IN  [ dom |-> resize.dom,
          reply |-> reply,
          gaFirstTime |-> flag,
          navigated |-> doNav /\ ~nav.threw,
          executed |-> doCall,
          call |-> call,
          resized |-> doResize /\ ~resize.threw,
          threw |-> IF nav.threw THEN "hsfw_updateGaIframe"
                    ELSE IF call.escaped THEN "hsfw_executeFunction"
                    ELSE IF resize.threw THEN "hsfw_resizeContainer"
                    ELSE "" ]

\* the listener of hsfw_addMessageListener: (event) => { handleMessageEvent(window,
\* document, event, gaFirstTime) } passes the closure's gaFirstTime by value and
\* stores nothing back
listenerCall(dom, event, closure, p) == handleMessageEvent(dom, event, closure.gaFirstTime, p)

closureAfter(closure, result) == closure

\* the event is dispatched to every listener in registration order; an exception
\* of one listener is reported and the next listener still runs
RECURSIVE dispatchEvent(_, _, _, _, _)
dispatchEvent(i, acc, event, ls, p) ==
    IF i > Len(ls) THEN acc
    ELSE LET r == listenerCall(acc.dom, event, ls[i], p)
         IN  dispatchEvent(i + 1,
                 [ dom |-> r.dom,
                   closures |-> Append(acc.closures, closureAfter(ls[i], r)),
                   outcomes |-> Append(acc.outcomes, [ x \in DOMAIN r \ { "dom" } |-> r[x] ]) ],
                 event, ls, p)

\* the analytics ids a message may carry: none, the one or the other
AnalyticsIds ==
    { [hs_gaID |-> Undefined, hs_gaGTMID |-> Undefined],
      [hs_gaID |-> "UA-1", hs_gaGTMID |-> Undefined],
      [hs_gaID |-> Undefined, hs_gaGTMID |-> "GTM-1"] }

\* the message events a window may post
Messages ==
    { [ hs_gaID |-> ga.hs_gaID, hs_gaGTMID |-> ga.hs_gaGTMID, hs_gaPageToOpen |-> pg,
        calledFunction |-> fn,
        functionParams |-> IF fn = Undefined THEN Undefined ELSE "args", hsfw_height |-> h ] :
        ga \in AnalyticsIds,
        pg \in { Undefined, "/thanks" },
        fn \in { Undefined, "missingFn" } \cup WindowFunctions \cup ParentFunctions,
        h \in { None, Some(0), Some(50) } }

\* the window that posts them
Sources == { "widgetFrame" }

----------------------------------------------------------------------------
(* The mount: connectedCallback and the statements of hsfw_factory *)

\* the iframe attached before the listener is registered
FactoryOrderAttachFirst ==
    << "getPageUrl", "formatUrl", "createContainer", "getClientInfo", "setContainerStyle",
       "createIframe", "appendChild", "addMessageListener", "return" >>

\* the statements of hsfw_factory in program order
FactoryOrder ==
    << "getPageUrl", "formatUrl", "createContainer", "getClientInfo", "setContainerStyle",
       "createIframe", "addMessageListener", "appendChild", "return" >>

StepAfter(pc) ==
    LET i == CHOOSE j \in 1..Len(FactoryOrder) : FactoryOrder[j] = pc
    IN  FactoryOrder[i + 1]

NoDispatch ==
    [event |-> [source |-> Undefined], listeners |-> 0, outcomes |-> << >>, replied |-> << >>]

Idle ==
    [ pc |-> "idle", binding |-> "", window |-> "", document |-> "", hsfw_formId |-> "",
      hsfw_prod |-> FALSE, pageUrl |-> None, formattedUrl |-> None, container |-> None,
      clientInfo |-> None, iframe |-> None, listener |-> 0, steps |-> << >> ]

Advance(r, step) == [r EXCEPT !.pc = StepAfter(step), !.steps = Append(@, step)]

\* connectedCallback as written: hsfw_factory(document, window, formId, navigator,
\* false) binds the parameter window to the document, document to the window,
\* localStorage to the form id, hsfw_formId to false and leaves hsfw_prod undefined
connectedCallback(formId) ==
    /\ run.pc = "idle"
    /\ run' = [ Idle EXCEPT !.pc = FactoryOrder[1], !.binding = "connectedCallback",
                            !.window = "document", !.document = "window",
                            !.hsfw_formId = "false", !.hsfw_prod = FALSE ]
    /\ dispatch' = NoDispatch
    /\ UNCHANGED <<now, search, localStorage, timers, written, page, gaIframe, body,
                   listeners, mounts, replied>>

\* hsfw_factory called with its arguments in the order of its parameter list
factoryAsDeclared(formId) ==
    /\ run.pc = "idle"
    /\ run' = [ Idle EXCEPT !.pc = FactoryOrder[1], !.binding = "declared",
                            !.window = "window", !.document = "document",
                            !.hsfw_formId = formId, !.hsfw_prod = FALSE ]
    /\ dispatch' = NoDispatch
    /\ UNCHANGED <<now, search, localStorage, timers, written, page, gaIframe, body,
                   listeners, mounts, replied>>

\* const pageUrl = hsfw_getPageUrl(window, document); a TypeError of new URL
\* leaves hsfw_factory and connectedCallback
getPageUrl ==
    /\ run.pc = "getPageUrl"
    /\ LET r == hsfw_getPageUrl(run.window, run.document, page)
       IN  IF r.threw
           THEN /\ run' = Idle
                /\ mounts' = [mounts EXCEPT !.threw = @ \cup { run.binding }]
           ELSE /\ run' = [Advance(run, "getPageUrl") EXCEPT !.pageUrl = Some(r.url)]
                /\ UNCHANGED mounts
    /\ UNCHANGED <<now, search, localStorage, timers, written, page, gaIframe, body,
                   listeners, replied, dispatch>>

formatUrl ==
    /\ run.pc = "formatUrl"
    /\ run' = [Advance(run, "formatUrl") EXCEPT
                  !.formattedUrl = IF run.pageUrl = None THEN None
                                   ELSE Some(hsfw_formatUrl(run.pageUrl[1]))]
    /\ UNCHANGED <<now, search, localStorage, timers, written, page, gaIframe, body,
                   listeners, mounts, replied, dispatch>>

createContainer ==
    /\ run.pc = "createContainer"
    /\ run' = [Advance(run, "createContainer") EXCEPT !.container = Some(hsfw_createContainer)]
    /\ UNCHANGED <<now, search, localStorage, timers, written, page, gaIframe, body,
                   listeners, mounts, replied, dispatch>>

\* hsfw_getClientInfo runs the merge routine, which writes localStorage and arms
\* the expiry timers
getClientInfo ==
    /\ run.pc = "getClientInfo"
    /\ \E m \in { hsfw_getReferringPageVariables(search, localStorage, timers, written,
                                                   run.hsfw_formId, now) } :
           /\ run' = [Advance(run, "getClientInfo") EXCEPT
                         !.clientInfo = Some(hsfw_getClientInfo(page, m.params, Navigator))]
           /\ localStorage' = m.storage
           /\ timers' = m.timers
           /\ written' = m.written
    /\ UNCHANGED <<now, search, page, gaIframe, body, listeners, mounts, replied, dispatch>>

setContainerStyle ==
    /\ run.pc = "setContainerStyle"
    /\ run' = [Advance(run, "setContainerStyle") EXCEPT
                  !.container = IF run.container = None THEN None
                                ELSE Some(hsfw_setContainerStyle(run.container[1]))]
    /\ UNCHANGED <<now, search, localStorage, timers, written, page, gaIframe, body,
                   listeners, mounts, replied, dispatch>>

createIframe ==
    /\ run.pc = "createIframe"
    /\ run' = [Advance(run, "createIframe") EXCEPT
                  !.iframe = Some(hsfw_createIframe(page, run.hsfw_formId, run.hsfw_prod,
                                                    run.formattedUrl, run.clientInfo))]
    /\ UNCHANGED <<now, search, localStorage, timers, written, page, gaIframe, body,
                   listeners, mounts, replied, dispatch>>

\* var gaFirstTime = true; window.addEventListener("message", ...)
addMessageListener ==
    /\ run.pc = "addMessageListener"
    /\ listeners' = Append(listeners, [gaFirstTime |-> TRUE])
    /\ replied' = Append(replied, FALSE)
    /\ run' = [Advance(run, "addMessageListener") EXCEPT !.listener = Len(listeners) + 1]
    /\ UNCHANGED <<now, search, localStorage, timers, written, page, gaIframe, body,
                   mounts, dispatch>>

\* container.appendChild(iframe)
appendChild ==
    /\ run.pc = "appendChild"
    /\ run' = [Advance(run, "appendChild") EXCEPT
                  !.container = IF run.container = None THEN None
                                ELSE Some([run.container[1] EXCEPT
                                              !.children = @ \o run.iframe])]
    /\ UNCHANGED <<now, search, localStorage, timers, written, page, gaIframe, body,
                   listeners, mounts, replied, dispatch>>

\* return container; the caller appends it to the element, which is in the document
returnContainer ==
    /\ run.pc = "return"
    /\ body' = body \o run.container
    /\ mounts' = [mounts EXCEPT !.completed = Append(@, run.binding)]
    /\ run' = Idle
    /\ UNCHANGED <<now, search, localStorage, timers, written, page, gaIframe,
                   listeners, replied, dispatch>>

----------------------------------------------------------------------------
(* Events of the page *)

NoMounts == [completed |-> << >>, threw |-> { }]

\* one message event: every registered listener handles it (with no listener
\* registered nothing runs)
messageEvent(data, source) ==
    /\ run.pc = "idle"
    /\ listeners # << >>
    /\ \E event \in { [data |-> data, source |-> source] } :
       \E r \in { dispatchEvent(1, [ dom |-> [gaIframe |-> gaIframe, body |-> body],
                                     closures |-> << >>, outcomes |-> << >> ],
                                event, listeners, page) } :
           /\ gaIframe' = r.dom.gaIframe
           /\ body' = r.dom.body
           /\ listeners' = r.closures
           /\ replied' = [ i \in 1..Len(replied) |->
                             replied[i] \/ r.outcomes[i].reply.to # Undefined ]
           /\ dispatch' = [event |-> event, listeners |-> Len(listeners),
                           outcomes |-> r.outcomes, replied |-> replied]
    /\ UNCHANGED <<now, search, localStorage, timers, written, page, run, mounts>>

\* a pending expiry timer fires: () => localStorage.removeItem(key)
expireTimer(t) ==
    /\ run.pc = "idle"
    /\ t \in timers
    /\ t.due <= now
    /\ localStorage' = removeItem(localStorage, t.key)
    /\ timers' = timers \ { t }
    /\ UNCHANGED <<now, search, written, page, gaIframe, body, listeners, run, mounts,
                   replied, dispatch>>

\* time passes, up to the next timer that is due
tick ==
    /\ run.pc = "idle"
    /\ now < Horizon
    /\ \A t \in timers : t.due > now
    /\ now' = Min({ now + TickMs } \cup { t.due : t \in timers })
    /\ UNCHANGED <<search, localStorage, timers, written, page, gaIframe, body, listeners,
                   run, mounts, replied, dispatch>>

\* client-side navigation (history.pushState): the query string changes, the
\* page, its timers and its listeners stay
pushState(q) ==
    /\ run.pc = "idle"
    /\ q # search
    /\ search' = q
    /\ UNCHANGED <<now, localStorage, timers, written, page, gaIframe, body, listeners,
                   run, mounts, replied, dispatch>>

\* the page is left or reloaded: the document, its listeners and its pending
\* timers are discarded, localStorage stays
navigate(q) ==
    /\ run.pc = "idle"
    /\ mounts # NoMounts
    /\ search' = q
    /\ timers' = { }
    /\ body' = << >>
    /\ listeners' = << >>
    /\ replied' = << >>
    /\ mounts' = NoMounts
    /\ dispatch' = NoDispatch
    /\ UNCHANGED <<now, localStorage, written, page, gaIframe, run>>

----------------------------------------------------------------------------
(* Specifications *)

InitPage ==
    /\ now = 0
    /\ timers = { }
    /\ written = << >>
    /\ body = << >>
    /\ listeners = << >>
    /\ run = Idle
    /\ mounts = NoMounts
    /\ replied = << >>
    /\ dispatch = NoDispatch

FactoryStep ==
    \/ getPageUrl
    \/ formatUrl
    \/ createContainer
    \/ getClientInfo
    \/ setContainerStyle
    \/ createIframe
    \/ addMessageListener
    \/ appendChild
    \/ returnContainer

\* Mount and message relay: elements are attached and messages arrive, on any of
\* the pages, with or without the analytics iframe.
Init ==
    /\ InitPage
    /\ page \in Pages
    /\ gaIframe \in { Undefined, "" }
    /\ search = << [key |-> "utm_source", value |-> "a"] >>
    /\ localStorage = << >>

Next ==
    \/ \E formId \in FormIds : Len(mounts.completed) < MaxMounts /\ connectedCallback(formId)
    \/ \E formId \in FormIds : Len(mounts.completed) < MaxMounts /\ factoryAsDeclared(formId)
    \/ FactoryStep
    \/ \E data \in Messages, source \in Sources : messageEvent(data, source)

Spec == Init /\ [][Next]_vars

\* The UTM cache over time: mounts, timers, the clock and navigation.
InitUtm ==
    /\ InitPage
    /\ page \in { p \in Pages : ~p.framed /\ p.location.pathname = "/" }
    /\ gaIframe = Undefined
    /\ search \in NavQueries
    /\ localStorage = << >>

NextUtm ==
    \/ \E formId \in FormIds : Len(mounts.completed) < MaxUtmMounts /\ factoryAsDeclared(formId)
    \/ FactoryStep
    \/ \E t \in timers : expireTimer(t)
    \/ tick
    \/ \E q \in NavQueries : pushState(q)
    \/ \E q \in NavQueries : navigate(q)

SpecUtm == InitUtm /\ [][NextUtm]_vars

\* The merge routine on every URL and every state of the cache.
CacheKeys == { getUtmKeys(k, f) : k \in QueryKeys \cap Range(utmKeys), f \in FormIds }

Caches == UNION { [ D -> QueryValues ] : D \in SUBSET CacheKeys }

InitMerge ==
    /\ InitPage
    /\ page \in { p \in Pages : ~p.framed /\ p.location.pathname = "/" }
    /\ gaIframe = Undefined
    /\ search \in Queries
    /\ localStorage \in Caches

NextMerge ==
    \/ \E formId \in FormIds : Len(mounts.completed) < MaxMounts /\ factoryAsDeclared(formId)
    \/ FactoryStep

SpecMerge == InitMerge /\ [][NextMerge]_vars

----------------------------------------------------------------------------
(* Properties *)

\* the height style 200 + h + "px"
Px(h) == ToString(200 + h) \o "px"

\* the outcomes of the last message event, one per listener that handled it
Outcomes == { dispatch.outcomes[i] : i \in 1..Len(dispatch.outcomes) }

\* C1: for one listener registration and any sequence of message events, the
\* analytics handshake reply is posted at most once.
C1_HandshakeAtMostOnce ==
    \A i \in 1..Len(dispatch.outcomes) :
        dispatch.replied[i] => dispatch.outcomes[i].reply.to = Undefined

\* the merge routine has run in the mount in progress; its output
MergeDone == run.clientInfo # None

Params == run.clientInfo[1].referringPageVariables

InUrl(k) == \E i \in 1..Len(search) : search[i].key = k

\* C2: a read of a UTM key through the cache branch less than 180,000 ms after
\* the latest write of that key returns the written value: no timer armed
\* earlier removes the entry before then.
C2_ReadWithinTtlReturnsWritten ==
    MergeDone =>
        \A k \in Range(utmKeys) :
            LET key == getUtmKeys(k, run.hsfw_formId)
            IN  ( /\ ~InUrl(k)
                  /\ key \in DOMAIN written
                  /\ now < written[key].at + DEFAULT_EXPIRED_UTM_VALUE_TIMEOUT )
                => \E i \in 1..Len(Params) :
                       Params[i] = [key |-> k, value |-> written[key].value]

\* C3: every UTM cache entry written by the merge routine is absent once more
\* than 180,000 ms have passed since its last write, also when the page was left
\* or reloaded before its timer fired.
C3_EntryAbsentAfterTtl ==
    \A key \in DOMAIN localStorage :
        key \in DOMAIN written =>
            now <= written[key].at + DEFAULT_EXPIRED_UTM_VALUE_TIMEOUT

\* the UTM keys absent from the URL that have a non-empty cached value, in the
\* order of the key list
CachedKeys ==
    SelectSeq(utmKeys, LAMBDA k :
        /\ ~InUrl(k)
        /\ getUtmKeys(k, run.hsfw_formId) \in DOMAIN localStorage
        /\ localStorage[getUtmKeys(k, run.hsfw_formId)] # "")

\* C4 (as amended): the output of the merge routine is one segment for every
\* entry of the URL query string, UTM key or not and duplicates included, in URL
\* order, followed by one segment for every UTM key that is absent from the URL
\* and has a non-empty cached value, in the order of the key list.
C4_MergeOutput ==
    MergeDone =>
        /\ Len(Params) = Len(search) + Len(CachedKeys)
        /\ \A i \in 1..Len(search) :
               Params[i] = [key |-> search[i].key, value |-> search[i].value]
        /\ \A j \in 1..Len(CachedKeys) :
               Params[Len(search) + j] =
                   [ key |-> CachedKeys[j],
                     value |-> localStorage[getUtmKeys(CachedKeys[j], run.hsfw_formId)] ]

\* the merge has run on a URL with a UTM entry after another entry and with a
\* cached key that the URL lacks
C4_Witness ==
    /\ MergeDone
    /\ Len(search) = 2
    /\ search[1].key = "ref"
    /\ search[2].key = "utm_medium"
    /\ Len(CachedKeys) = 1
    /\ Len(Params) = 3
    /\ Params[3].key = "utm_source"

\* C4 (as stated): the output has a segment for exactly the UTM keys present in
\* the URL plus the UTM keys absent from the URL but cached, each exactly once,
\* in the order of the key list.
C4_UtmKeysOnceInListOrder ==
    MergeDone =>
        LET keys == [ i \in 1..Len(Params) |-> Params[i].key ]
            utmSegments == SelectSeq(keys, LAMBDA k : k \in Range(utmKeys))
            expected == SelectSeq(utmKeys, LAMBDA k :
                            InUrl(k) \/ \E j \in 1..Len(CachedKeys) : CachedKeys[j] = k)
        IN  utmSegments = expected

\* whether the page defines the function on the window, or else on the parent
OnWindow(fn) == fn \in WindowFunctions

OnParent(fn) == IF page.framed THEN fn \in ParentFunctions ELSE fn \in WindowFunctions

\* C5: whenever hsfw_executeFunction runs for a message carrying calledFunction,
\* no exception leaves it; the window's function of that name is invoked with
\* functionParams, else the parent's, else none; and the handler goes on to the
\* resize branch, also when the invoked function threw.
C5_ExecuteFunctionNeverThrows ==
    \A o \in Outcomes :
        o.executed =>
            LET fn == dispatch.event.data.calledFunction
            IN  /\ ~o.call.escaped
                /\ o.threw # "hsfw_executeFunction"
                /\ o.call.invoked = ( IF OnWindow(fn) THEN "window"
                                      ELSE IF OnParent(fn) THEN "parent" ELSE "none" )
                /\ o.call.invoked # "none" => o.call.params = dispatch.event.data.functionParams
                /\ o.call.caught = (o.call.invoked # "none" /\ fn \in ThrowingFunctions)
                /\ TruthyNumber(dispatch.event.data.hsfw_height)
                       => o.resized /\ body[1].height = Px(dispatch.event.data.hsfw_height[1])

\* a listener has run a function that threw and has then resized the container
C5_Witness ==
    \E o \in Outcomes :
        /\ o.executed
        /\ o.call.invoked = "window"
        /\ o.call.caught
        /\ o.resized
        /\ body[1].height = "250px"

\* C6: connectedCallback of an element with a formid attribute completes without
\* error and appends one container holding exactly one iframe whose src carries
\* the element's form id.
C6_ConnectedCallbackMounts == "connectedCallback" \notin mounts.threw

\* the heights a handled message can have set
ReportedHeights ==
    { Px(m.hsfw_height[1]) : m \in { x \in Messages : TruthyNumber(x.hsfw_height) } }

\* C7: with a single mounted widget the container's height is "100%" until a
\* message with a height value has been handled, and afterwards 200 + h followed
\* by "px" for the height h of the most recent such message.
C7_ContainerHeight ==
    ( /\ run.pc = "idle"
      /\ Len(body) = 1
      /\ Len(listeners) = 1 )
    => IF dispatch.listeners = 1 /\ TruthyNumber(dispatch.event.data.hsfw_height)
       THEN body[1].height = Px(dispatch.event.data.hsfw_height[1])
       ELSE body[1].height \in { "100%" } \cup ReportedHeights

\* C8: for every message event each of the branches whose field is present is
\* executed, whatever the outcome of the earlier branches.
C8_EveryPresentBranchRuns ==
    \A o \in Outcomes :
        LET data == dispatch.event.data
        IN  /\ Truthy(data.calledFunction) => o.executed
            /\ TruthyNumber(data.hsfw_height) => o.resized

\* the statements the claim orders
ClaimedOrder ==
    << "createContainer", "getClientInfo", "setContainerStyle", "createIframe",
       "addMessageListener", "appendChild" >>

IsPrefix(s, t) == Len(s) <= Len(t) /\ \A i \in 1..Len(s) : s[i] = t[i]

\* C9: in every run of hsfw_factory the statements run in the order create
\* container, compute client info, style container, create iframe, register
\* listener, attach iframe; the iframe's src is set only after the formatted URL
\* and the client info are computed, and the iframe is attached only after the
\* listener is registered.
C9_FactoryOrder ==
    /\ IsPrefix(SelectSeq(run.steps, LAMBDA st : st \in Range(ClaimedOrder)), ClaimedOrder)
    /\ run.iframe # None =>
           /\ run.formattedUrl # None
           /\ run.clientInfo # None
           /\ run.iframe[1].src.domain = run.formattedUrl
           /\ run.iframe[1].src.clientInfo = run.clientInfo
    /\ (run.container # None /\ run.container[1].children # << >>) =>
           /\ run.listener # 0
           /\ run.listener <= Len(listeners)
    /\ \A i \in 1..Len(body) : body[i].children # << >> /\ Len(listeners) >= i

\* a run has executed all its statements and is about to return the container
C9_Witness ==
    /\ run.pc = "return"
    /\ Len(run.steps) = 8
    /\ run.container[1].children = run.iframe
    /\ run.listener = Len(listeners)

\* C10: every completed run of hsfw_factory registers one listener and none is
\* removed, so after k completed mounts every message is handled k times and a
\* message carrying calledFunction invokes the target function k times.
C10_ListenersAccumulate ==
    run.pc = "idle" =>
        /\ Len(listeners) = Len(mounts.completed)
        /\ dispatch.listeners > 0 =>
               /\ Len(dispatch.outcomes) = dispatch.listeners
               /\ LET fn == dispatch.event.data.calledFunction
                  IN  (OnWindow(fn) \/ OnParent(fn)) =>
                          \A o \in Outcomes : o.call.invoked # "none"

====
